---- MODULE Spec2Model ----
(***************************************************************************)
(* Model of lib/Elements/index.js: the card-element builders, the text      *)
(* preprocessing applied to TextBlock.text and TextRun.text, the derived    *)
(* Image.msTeams field, the people-icon builders and the frozen enum        *)
(* registries.                                                             *)
(*                                                                         *)
(* JavaScript values are records [t, b, n, s]: t is the kind ("absent" for  *)
(* a key the caller did not put in the parameter object), b the boolean,    *)
(* n the number or the identity of an object, s the characters of a string. *)
(* A string is a sequence of one-character strings.                         *)
(***************************************************************************)
EXTENDS Integers, Sequences, FiniteSets

VARIABLES op, params, result, pc, registries, writes

vars == <<op, params, result, pc, registries, writes>>

----------------------------------------------------------------------------
(* Bounds of the model *)

\* longest text drawn from the full alphabet
MaxLen == 5

\* most segments concatenated into a text with several markers
MaxSegs == 2

\* most parameter fields supplied in one builder call
MaxSupplied == 2

\* most users handed to userIconSet
MaxUsers == 2

\* most attempted writes to the registries in one run
MaxWrites == 2

----------------------------------------------------------------------------
(* JavaScript values *)

Absent == [t |-> "absent", b |-> FALSE, n |-> 0, s |-> <<>>]

Undefined == [t |-> "undefined", b |-> FALSE, n |-> 0, s |-> <<>>]

Null == [t |-> "null", b |-> FALSE, n |-> 0, s |-> <<>>]

Bool(x) == [t |-> "boolean", b |-> x, n |-> 0, s |-> <<>>]

Num(x) == [t |-> "number", b |-> FALSE, n |-> x, s |-> <<>>]

Str(x) == [t |-> "string", b |-> FALSE, n |-> 0, s |-> x]

Obj(x) == [t |-> "object", b |-> FALSE, n |-> x, s |-> <<>>]

\* ToBoolean, as applied by `text && ...` and by `allowZoom ? ... : ...`
Truthy(v) ==
    CASE v.t = "boolean" -> v.b
      [] v.t = "number" -> v.n # 0
      [] v.t = "string" -> v.s # <<>>
      [] v.t = "object" -> TRUE
      [] OTHER -> FALSE

\* a destructuring without default values: a missing key is undefined
DestructureNoDefault(p, f, d) ==
    IF p[f].t = "absent" THEN Undefined ELSE p[f]

\* a default taken with "||": it replaces every value that counts as false
DestructureFalsy(p, f, d) ==
    IF Truthy(p[f]) THEN p[f] ELSE d

\* a destructured parameter: the default applies to a missing key and to undefined
Destructure(p, f, d) ==
    IF p[f].t \in {"absent", "undefined"} THEN d ELSE p[f]

----------------------------------------------------------------------------
(* String literals of the source *)


S_TextBlock ==
    <<"T", "e", "x", "t", "B", "l", "o", "c", "k">>

S_Image ==
    <<"I", "m", "a", "g", "e">>

S_Media ==
    <<"M", "e", "d", "i", "a">>

S_RichTextBlock ==
    <<"R", "i", "c", "h", "T", "e", "x", "t", "B", "l", "o", "c", "k">>

S_TextRun ==
    <<"T", "e", "x", "t", "R", "u", "n">>

S_Component ==
    <<"C", "o", "m", "p", "o", "n", "e", "n", "t">>

S_left ==
    <<"l", "e", "f", "t">>

S_image ==
    <<"i", "m", "a", "g", "e">>

S_compact ==
    <<"c", "o", "m", "p", "a", "c", "t">>

S_graph_microsoft_com_user ==
    <<"g", "r", "a", "p", "h", ".", "m", "i", "c", "r", "o", "s", "o", "f", "t", ".", "c", "o", "m", "/", "u", "s", "e", "r">>

S_graph_microsoft_com_users ==
    <<"g", "r", "a", "p", "h", ".", "m", "i", "c", "r", "o", "s", "o", "f", "t", ".", "c", "o", "m", "/", "u", "s", "e", "r", "s">>

S_default ==
    <<"d", "e", "f", "a", "u", "l", "t">>

S_dark ==
    <<"d", "a", "r", "k">>

S_light ==
    <<"l", "i", "g", "h", "t">>

S_accent ==
    <<"a", "c", "c", "e", "n", "t">>

S_good ==
    <<"g", "o", "o", "d">>

S_warning ==
    <<"w", "a", "r", "n", "i", "n", "g">>

S_attention ==
    <<"a", "t", "t", "e", "n", "t", "i", "o", "n">>

S_monospace ==
    <<"m", "o", "n", "o", "s", "p", "a", "c", "e">>

S_small ==
    <<"s", "m", "a", "l", "l">>

S_medium ==
    <<"m", "e", "d", "i", "u", "m">>

S_large ==
    <<"l", "a", "r", "g", "e">>

S_extraLarge ==
    <<"e", "x", "t", "r", "a", "L", "a", "r", "g", "e">>

S_lighter ==
    <<"l", "i", "g", "h", "t", "e", "r">>

S_bolder ==
    <<"b", "o", "l", "d", "e", "r">>

S_heading ==
    <<"h", "e", "a", "d", "i", "n", "g">>

S_stretch ==
    <<"s", "t", "r", "e", "t", "c", "h">>

S_auto ==
    <<"a", "u", "t", "o">>

S_person ==
    <<"p", "e", "r", "s", "o", "n">>

----------------------------------------------------------------------------
(* The enum registries: frozen object literals, class fields of Elements *)

\* every key of some registry, and one key no registry declares
EnumKeys ==
    {"default", "black", "grey", "blue", "green", "yellow", "red", "monospace",
     "small", "medium", "large", "xl", "lighter", "bolder", "heading",
     "stretch", "auto", "rounded", "extra"}

RegistryNames ==
    {"TextColors", "TextFontTypes", "TextSizes", "TextWeights", "TextStyles",
     "ImageSizes", "ImageStyles"}

\* an object literal { k: v, ... }: extensible, every other key missing
ObjectLiteral(f) ==
    [frozen |-> FALSE,
     map |-> [k \in EnumKeys |-> IF k \in DOMAIN f THEN f[k] ELSE Absent]]

\* Object.freeze without effect: the object stays writable
ObjectFreezeNoop(o) ==
    o

\* Object.freeze(o)
ObjectFreeze(o) ==
    [o EXCEPT !.frozen = TRUE]

\* o[k]: a missing key reads as undefined
GetProperty(o, k) ==
    IF o.map[k] = Absent THEN Undefined ELSE o.map[k]

\* o[k] = v: ignored (or a TypeError, in strict code) on a frozen object
SetProperty(o, k, v) ==
    IF o.frozen THEN o ELSE [o EXCEPT !.map[k] = v]

\* delete o[k]: ignored (or a TypeError, in strict code) on a frozen object
DeleteProperty(o, k) ==
    IF o.frozen THEN o ELSE [o EXCEPT !.map[k] = Absent]

TextColors ==
    ObjectFreeze(ObjectLiteral(
        [default |-> Str(S_default), black |-> Str(S_dark), grey |-> Str(S_light),
         blue |-> Str(S_accent), green |-> Str(S_good), yellow |-> Str(S_warning),
         red |-> Str(S_attention)]))

TextFontTypes ==
    ObjectFreeze(ObjectLiteral(
        [default |-> Str(S_default), monospace |-> Str(S_monospace)]))

TextSizes ==
    ObjectFreeze(ObjectLiteral(
        [default |-> Str(S_default), small |-> Str(S_small), medium |-> Str(S_medium),
         large |-> Str(S_large), xl |-> Str(S_extraLarge)]))

TextWeights ==
    ObjectFreeze(ObjectLiteral(
        [default |-> Str(S_default), lighter |-> Str(S_lighter),
         bolder |-> Str(S_bolder)]))

TextStyles ==
    ObjectFreeze(ObjectLiteral(
        [default |-> Str(S_default), heading |-> Str(S_heading)]))

ImageSizes ==
    ObjectFreeze(ObjectLiteral(
        [small |-> Str(S_small), medium |-> Str(S_medium), large |-> Str(S_large),
         stretch |-> Str(S_stretch), auto |-> Str(S_auto)]))

ImageStyles ==
    ObjectFreeze(ObjectLiteral(
        [default |-> Str(S_default), rounded |-> Str(S_person)]))

\* the instance's registries after construction
LoadedRegistries ==
    [TextColors |-> TextColors, TextFontTypes |-> TextFontTypes,
     TextSizes |-> TextSizes, TextWeights |-> TextWeights,
     TextStyles |-> TextStyles, ImageSizes |-> ImageSizes,
     ImageStyles |-> ImageStyles]

\* this.HAlign.left, inherited from Base
HAlignLeft ==
    Str(S_left)

----------------------------------------------------------------------------
(* Text preprocessing: text.replace(/\@\<+([^\>[]+)>+/g, "<at>$1</at>"),     *)
(* then EmojiService.toUnicodeVersion                                       *)

\* number of consecutive characters of s from position i that are in C
RECURSIVE RunIn(_, _, _)
RunIn(s, i, C) ==
    IF i <= Len(s) /\ s[i] \in C THEN 1 + RunIn(s, i + 1, C) ELSE 0

\* number of consecutive characters of s from position i that are not in C
RECURSIVE RunNotIn(_, _, _)
RunNotIn(s, i, C) ==
    IF i <= Len(s) /\ s[i] \notin C THEN 1 + RunNotIn(s, i + 1, C) ELSE 0

\* the characters the class [^\>[] excludes
ClassExcluded ==
    {">", "["}

\* the largest element of a non-empty set of numbers
MaxOf(S) ==
    CHOOSE x \in S : \A y \in S : y <= x

\* the pattern with a single "<" after "@": a further "<" is captured
MatchAtSingleLt(s, i) ==
    LET m == RunNotIn(s, i + 2, ClassExcluded)
    IN  IF /\ i + 1 <= Len(s)
           /\ s[i] = "@"
           /\ s[i + 1] = "<"
           /\ m >= 1
           /\ RunIn(s, i + 2 + m, {">"}) >= 1
        THEN [ok |-> TRUE, from |-> i + 2, to |-> i + 1 + m,
              end |-> i + 2 + m + RunIn(s, i + 2 + m, {">"})]
        ELSE [ok |-> FALSE, from |-> 0, to |-> 0, end |-> 0]

\* The regular expression tried at position i, with its backtracking: "<+" is
\* greedy and gives back one "<" at a time, the group is greedy and gives back
\* one character at a time, and ">+" takes every ">" that follows. The result
\* is the first alternative that succeeds: ok, the group (from, to) and the
\* position after the match.
MatchAt(s, i) ==
    LET lts == RunIn(s, i + 1, {"<"})
        groupLens(n) ==
            {m \in 1..RunNotIn(s, i + 1 + n, ClassExcluded) :
                RunIn(s, i + 1 + n + m, {">"}) >= 1}
        ns == {n \in 1..lts : groupLens(n) # {}}
    IN  IF i <= Len(s) /\ s[i] = "@" /\ ns # {}
        THEN LET n == MaxOf(ns)
                 m == MaxOf(groupLens(n))
                 from == i + 1 + n
                 to == i + n + m
             IN  [ok |-> TRUE, from |-> from, to |-> to,
                  end |-> to + 1 + RunIn(s, to + 1, {">"})]
        ELSE [ok |-> FALSE, from |-> 0, to |-> 0, end |-> 0]

\* the replacement "<at>$1</at>" for a captured text
Replacement(group) ==
    <<"<", "a", "t", ">">> \o group \o <<"<", "/", "a", "t", ">">>

\* replace without the g flag: only the first match is rewritten
RECURSIVE ReplaceFirst(_, _)
ReplaceFirst(s, i) ==
    IF i > Len(s) THEN <<>>
    ELSE LET m == MatchAt(s, i)
         IN  IF m.ok
             THEN Replacement(SubSeq(s, m.from, m.to)) \o SubSeq(s, m.end, Len(s))
             ELSE <<s[i]>> \o ReplaceFirst(s, i + 1)

\* String.prototype.replace with a global pattern, from position i on: the
\* leftmost match is replaced and the scan goes on after it
RECURSIVE ReplaceAll(_, _)
ReplaceAll(s, i) ==
    IF i > Len(s) THEN <<>>
    ELSE LET m == MatchAt(s, i)
         IN  IF m.ok
             THEN Replacement(SubSeq(s, m.from, m.to)) \o ReplaceAll(s, m.end)
             ELSE <<s[i]>> \o ReplaceAll(s, i + 1)

\* the mention rewrite of a string
MentionRewrite(s) ==
    ReplaceAll(s, 1)

\* the shorthand the converter knows, and the code point it stands for
EmojiShorthand ==
    <<":", "a", ":">>

EmojiUnicode ==
    <<"U+1F600">>

\* EmojiService.toUnicodeVersion: every known colon-wrapped name becomes its
\* code point, everything else is kept
RECURSIVE toUnicodeVersion(_)
toUnicodeVersion(s) ==
    IF s = <<>> THEN <<>>
    ELSE IF Len(s) >= 3 /\ SubSeq(s, 1, 3) = EmojiShorthand
         THEN EmojiUnicode \o toUnicodeVersion(SubSeq(s, 4, Len(s)))
         ELSE <<s[1]>> \o toUnicodeVersion(Tail(s))

\* the preprocessing without the guard: every value is handled as a string
PreparedTextUnguarded(text) ==
    Str(toUnicodeVersion(MentionRewrite(text.s)))

\* preparedText of textBlock and textRun, for the destructured text
PreparedText(text) ==
    IF Truthy(text) /\ text.t = "string"
    THEN Str(toUnicodeVersion(MentionRewrite(text.s)))
    ELSE text

----------------------------------------------------------------------------
(* The builders.  p is the parameter object; regs the instance's registries *)

textBlock(p, regs) ==
    [type |-> Str(S_TextBlock),
     text |-> PreparedText(Destructure(p, "text", Undefined)),
     color |-> Destructure(p, "color", Undefined),
     fontType |-> Destructure(p, "fontType", Undefined),
     horizontalAlignment |-> Destructure(p, "horizontalAlignment", HAlignLeft),
     isSubtle |-> Destructure(p, "isSubtle", Bool(FALSE)),
     maxLines |-> Destructure(p, "maxLines", Undefined),
     size |-> Destructure(p, "size", Undefined),
     weight |-> Destructure(p, "weight", Undefined),
     wrap |-> Destructure(p, "wrap", Bool(TRUE)),
     style |-> Destructure(p, "style", GetProperty(regs.TextStyles, "default")),
     height |-> Destructure(p, "height", Undefined),
     separator |-> Destructure(p, "separator", Bool(FALSE)),
     spacing |-> Destructure(p, "spacing", Undefined),
     id |-> Destructure(p, "id", Undefined),
     isVisible |-> Destructure(p, "isVisible", Bool(TRUE))]

\* msTeams by strict comparison with true
MsTeamsStrict(allowZoom) ==
    IF allowZoom = Bool(TRUE)
    THEN [k \in {"allowExpand"} |-> Bool(TRUE)]
    ELSE [k \in {} |-> Bool(TRUE)]

\* the msTeams sub-object of an image
MsTeams(allowZoom) ==
    IF Truthy(allowZoom)
    THEN [k \in {"allowExpand"} |-> Bool(TRUE)]
    ELSE [k \in {} |-> Bool(TRUE)]

image(p) ==
    [type |-> Str(S_Image),
     url |-> Destructure(p, "url", Undefined),
     altText |-> Destructure(p, "altText", Str(S_image)),
     backgroundColor |-> Destructure(p, "backgroundColor", Undefined),
     height |-> Destructure(p, "height", Undefined),
     horizontalAlignment |-> Destructure(p, "horizontalAlignment", HAlignLeft),
     selectAction |-> Destructure(p, "selectAction", Undefined),
     size |-> Destructure(p, "size", Undefined),
     style |-> Destructure(p, "style", Undefined),
     width |-> Destructure(p, "width", Undefined),
     separator |-> Destructure(p, "separator", Bool(FALSE)),
     spacing |-> Destructure(p, "spacing", Undefined),
     id |-> Destructure(p, "id", Undefined),
     isVisible |-> Destructure(p, "isVisible", Bool(TRUE)),
     msTeams |-> MsTeams(Destructure(p, "allowZoom", Bool(FALSE)))]

\* media with the caller's keys spread over the literal type
mediaSpread(p) ==
    [type |-> Destructure(p, "type", Str(S_Media)),
     sources |-> Destructure(p, "sources", Undefined),
     poster |-> Destructure(p, "poster", Undefined),
     altText |-> Destructure(p, "altText", Undefined),
     height |-> Destructure(p, "height", Undefined),
     separator |-> Destructure(p, "separator", Bool(FALSE)),
     spacing |-> Destructure(p, "spacing", Undefined),
     id |-> Destructure(p, "id", Undefined),
     isVisible |-> Destructure(p, "isVisible", Bool(TRUE))]

media(p) ==
    [type |-> Str(S_Media),
     sources |-> Destructure(p, "sources", Undefined),
     poster |-> Destructure(p, "poster", Undefined),
     altText |-> Destructure(p, "altText", Undefined),
     height |-> Destructure(p, "height", Undefined),
     separator |-> Destructure(p, "separator", Bool(FALSE)),
     spacing |-> Destructure(p, "spacing", Undefined),
     id |-> Destructure(p, "id", Undefined),
     isVisible |-> Destructure(p, "isVisible", Bool(TRUE))]

mediaSource(p) ==
    [mimeType |-> Destructure(p, "mimeType", Undefined),
     url |-> Destructure(p, "url", Undefined)]

richTextBlock(p) ==
    [type |-> Str(S_RichTextBlock),
     inlines |-> Destructure(p, "inlines", Undefined),
     horizontalAlignment |-> Destructure(p, "horizontalAlignment", HAlignLeft),
     height |-> Destructure(p, "height", Undefined),
     separator |-> Destructure(p, "separator", Bool(FALSE)),
     spacing |-> Destructure(p, "spacing", Undefined),
     id |-> Destructure(p, "id", Undefined),
     isVisible |-> Destructure(p, "isVisible", Bool(TRUE))]

textRun(p) ==
    [type |-> Str(S_TextRun),
     text |-> PreparedText(Destructure(p, "text", Undefined)),
     color |-> Destructure(p, "color", Undefined),
     fontType |-> Destructure(p, "fontType", Undefined),
     highlight |-> Destructure(p, "highlight", Bool(FALSE)),
     isSubtle |-> Destructure(p, "isSubtle", Bool(FALSE)),
     italic |-> Destructure(p, "italic", Bool(FALSE)),
     selectAction |-> Destructure(p, "selectAction", Undefined),
     strikethrough |-> Destructure(p, "strikethrough", Bool(FALSE)),
     underline |-> Destructure(p, "underline", Bool(FALSE)),
     size |-> Destructure(p, "size", Undefined),
     weight |-> Destructure(p, "weight", Undefined)]

\* one user renamed: a missing sub-field reads as undefined
RenamedUser(user) ==
    [id |-> Destructure(user, "id", Undefined),
     displayName |-> Destructure(user, "name", Undefined),
     userPrincipalName |-> Destructure(user, "email", Undefined)]

userIcon(user) ==
    [type |-> Str(S_Component),
     name |-> Str(S_graph_microsoft_com_user),
     view |-> Str(S_compact),
     properties |-> RenamedUser(user)]

\* userIconSet with the users in reverse order
userIconSetReversed(users) ==
    [type |-> Str(S_Component),
     name |-> Str(S_graph_microsoft_com_users),
     view |-> Str(S_compact),
     properties |->
        [users |-> [i \in 1..Len(users) |-> RenamedUser(users[Len(users) + 1 - i])]]]

userIconSet(users) ==
    [type |-> Str(S_Component),
     name |-> Str(S_graph_microsoft_com_users),
     view |-> Str(S_compact),
     properties |-> [users |-> [i \in 1..Len(users) |-> RenamedUser(users[i])]]]

----------------------------------------------------------------------------
(* The inputs the model draws *)

TextBlockKeys ==
    {"text", "color", "fontType", "horizontalAlignment", "isSubtle", "maxLines",
     "size", "weight", "wrap", "style", "height", "separator", "spacing", "id",
     "isVisible"}

ImageKeys ==
    {"url", "altText", "backgroundColor", "height", "horizontalAlignment",
     "selectAction", "size", "style", "width", "separator", "spacing", "id",
     "isVisible", "allowZoom"}

MediaKeys ==
    {"sources", "poster", "altText", "height", "separator", "spacing", "id",
     "isVisible"}

MediaSourceKeys ==
    {"mimeType", "url"}

RichTextBlockKeys ==
    {"inlines", "horizontalAlignment", "height", "separator", "spacing", "id",
     "isVisible"}

TextRunKeys ==
    {"text", "color", "fontType", "highlight", "isSubtle", "italic",
     "selectAction", "strikethrough", "underline", "size", "weight"}

UserKeys ==
    {"id", "name", "email"}

ParamBuilders ==
    {"textBlock", "image", "media", "mediaSource", "richTextBlock", "textRun"}

\* the keys a builder destructures
KeysOf(b) ==
    CASE b = "textBlock" -> TextBlockKeys
      [] b = "image" -> ImageKeys
      [] b = "media" -> MediaKeys
      [] b = "mediaSource" -> MediaSourceKeys
      [] b = "richTextBlock" -> RichTextBlockKeys
      [] b = "textRun" -> TextRunKeys

\* the keys a caller may put in the parameter object of a builder: the ones it
\* destructures and a key "type" of the caller's own
InputKeys(b) ==
    KeysOf(b) \cup {"type"}

\* the values a caller supplies for a field: undefined, null, the booleans, the
\* empty string and a string outside every enum
FieldValues ==
    {Undefined, Null, Bool(FALSE), Bool(TRUE), Str(<<>>), Str(<<"z">>)}

\* the parameter object with no key
NoParams(b) ==
    [k \in InputKeys(b) |-> Absent]

\* the parameter objects of builder b with at most n keys supplied
RECURSIVE ParamSets(_, _)
ParamSets(b, n) ==
    IF n = 0 THEN {NoParams(b)}
    ELSE LET S == ParamSets(b, n - 1)
         IN  S \cup {[p EXCEPT ![k] = v] : p \in S, k \in InputKeys(b), v \in FieldValues}

\* the identity records: each sub-field missing or one of two strings
Users ==
    [UserKeys -> {Absent, Str(<<"1">>), Str(<<"2">>)}]

\* the sequences over S of length at most n
RECURSIVE SeqsUpTo(_, _)
SeqsUpTo(S, n) ==
    IF n = 0 THEN {<<>>}
    ELSE LET T == SeqsUpTo(S, n - 1)
         IN  T \cup {Append(t, x) : t \in {u \in T : Len(u) = n - 1}, x \in S}

\* the characters the pattern tells apart, and a letter
Alphabet ==
    {"@", "<", ">", "[", "a"}

\* pieces of longer texts: markers, a shorthand emoji and single characters
Segments ==
    {<<"@", "<", "a", ">">>, <<"@", "<", "<", "b", " ", "c", ">", ">">>,
     <<":", "a", ":">>, <<"b">>, <<"@">>, <<"[">>, <<">">>}

\* the concatenations of at most n segments
RECURSIVE SegConcats(_)
SegConcats(n) ==
    IF n = 0 THEN {<<>>}
    ELSE {t \o x : t \in SegConcats(n - 1), x \in Segments \cup {<<>>}}

\* the texts: every string over the alphabet up to MaxLen, and the longer ones
\* made of segments
Texts ==
    SeqsUpTo(Alphabet, MaxLen) \cup SegConcats(MaxSegs)

\* the values a caller passes as text
TextValues ==
    {Absent, Undefined, Null, Bool(FALSE), Bool(TRUE), Num(0), Num(5), Obj(1)}
        \cup {Str(s) : s \in Texts}

NoResult ==
    [none |-> Undefined]

----------------------------------------------------------------------------
(* Builder calls: one action per entry point *)

Returns(value) ==
    /\ result' = value
    /\ pc' = "returned"
    /\ UNCHANGED <<op, params, registries, writes>>

CallTextBlock ==
    /\ pc = "ready"
    /\ op = "textBlock"
    /\ Returns(textBlock(params, registries))

CallImage ==
    /\ pc = "ready"
    /\ op = "image"
    /\ Returns(image(params))

CallMedia ==
    /\ pc = "ready"
    /\ op = "media"
    /\ Returns(media(params))

CallMediaSource ==
    /\ pc = "ready"
    /\ op = "mediaSource"
    /\ Returns(mediaSource(params))

CallRichTextBlock ==
    /\ pc = "ready"
    /\ op = "richTextBlock"
    /\ Returns(richTextBlock(params))

CallTextRun ==
    /\ pc = "ready"
    /\ op = "textRun"
    /\ Returns(textRun(params))

CallUserIcon ==
    /\ pc = "ready"
    /\ op = "userIcon"
    /\ Returns(userIcon(params))

CallUserIconSet ==
    /\ pc = "ready"
    /\ op = "userIconSet"
    /\ Returns(userIconSet(params))

----------------------------------------------------------------------------
(* Spec: one call of any builder, on every parameter object within the bounds *)

Loaded ==
    /\ registries = LoadedRegistries
    /\ writes = 0
    /\ result = NoResult
    /\ pc = "ready"

Init ==
    /\ Loaded
    /\ \/ /\ op \in ParamBuilders
          /\ params \in ParamSets(op, MaxSupplied)
       \/ /\ op = "userIcon"
          /\ params \in Users
       \/ /\ op = "userIconSet"
          /\ params \in SeqsUpTo(Users, MaxUsers)

Next ==
    \/ CallTextBlock
    \/ CallImage
    \/ CallMedia
    \/ CallMediaSource
    \/ CallRichTextBlock
    \/ CallTextRun
    \/ CallUserIcon
    \/ CallUserIconSet

Spec ==
    Init /\ [][Next]_vars

----------------------------------------------------------------------------
(* SpecText: textBlock and textRun on every text within the bounds *)

InitText ==
    /\ Loaded
    /\ op \in {"textBlock", "textRun"}
    /\ \E text \in TextValues : params = [NoParams(op) EXCEPT !["text"] = text]

NextText ==
    \/ CallTextBlock
    \/ CallTextRun

SpecText ==
    InitText /\ [][NextText]_vars

----------------------------------------------------------------------------
(* SpecEnum: reads of the registries and attempted writes to them, between  *)
(* calls of textBlock, whose style default is read from TextStyles           *)

\* the parameter objects of the textBlock calls of SpecEnum
EnumParams ==
    {[NoParams("textBlock") EXCEPT !["style"] = v] :
        v \in {Absent, Undefined, Str(S_heading)}}

\* the reads a caller makes: registry[key]
EnumReads ==
    [registry : RegistryNames, key : EnumKeys]

\* the values a caller tries to store
WrittenValues ==
    {Undefined, Str(S_heading), Str(<<"z">>)}

InitEnum ==
    /\ Loaded
    /\ \/ op = "textBlock" /\ params \in EnumParams
       \/ op = "read" /\ params \in EnumReads

\* registry[key], read by the caller
ReadEnum ==
    /\ pc = "ready"
    /\ op = "read"
    /\ Returns(GetProperty(registries[params.registry], params.key))

\* registry[key] = value, on a key the registry has or on a new one
AttemptSet ==
    /\ writes < MaxWrites
    /\ \E r \in RegistryNames, k \in EnumKeys, v \in WrittenValues :
          registries' = [registries EXCEPT ![r] = SetProperty(@, k, v)]
    /\ writes' = writes + 1
    /\ UNCHANGED <<op, params, result, pc>>

\* delete registry[key]
AttemptDelete ==
    /\ writes < MaxWrites
    /\ \E r \in RegistryNames, k \in EnumKeys :
          registries' = [registries EXCEPT ![r] = DeleteProperty(@, k)]
    /\ writes' = writes + 1
    /\ UNCHANGED <<op, params, result, pc>>

\* the caller goes on to its next call or read
NextCall ==
    /\ pc = "returned"
    /\ pc' = "ready"
    /\ result' = NoResult
    /\ \/ op' = "textBlock" /\ params' \in EnumParams
       \/ op' = "read" /\ params' \in EnumReads
    /\ UNCHANGED <<registries, writes>>

NextEnum ==
    \/ CallTextBlock
    \/ ReadEnum
    \/ AttemptSet
    \/ AttemptDelete
    \/ NextCall

SpecEnum ==
    InitEnum /\ [][NextEnum]_vars

----------------------------------------------------------------------------
(* Properties of the text preprocessing, checked under SpecText *)

\* a call of textBlock or textRun has returned
TextCallReturned ==
    pc = "returned" /\ op \in {"textBlock", "textRun"}

\* the value the builder finds under the key text: a missing key is undefined
GivenText ==
    IF params["text"] = Absent THEN Undefined ELSE params["text"]

NonEmptyString(v) ==
    v.t = "string" /\ Len(v.s) > 0

\* C1: a text that is not a non-empty string (undefined, null, "", a number, a
\* boolean, an object) is the text of the result, unchanged
C1_PassThrough ==
    (TextCallReturned /\ ~NonEmptyString(GivenText)) => result.text = GivenText

C1_Witness ==
    /\ TextCallReturned
    /\ params["text"] = Num(5)
    /\ result.text = Num(5)

\* the positions where the global replace finds its matches, from position i on
RECURSIVE Marks(_, _)
Marks(s, i) ==
    IF i > Len(s) THEN {}
    ELSE IF MatchAt(s, i).ok THEN {i} \cup Marks(s, MatchAt(s, i).end)
         ELSE Marks(s, i + 1)

AtOpen ==
    <<"<", "a", "t", ">">>

AtClose ==
    <<"<", "/", "a", "t", ">">>

\* s from position i on, with every marker of M that starts at or after i
\* replaced by its own inner text between the tags and the rest kept in place
RECURSIVE Rebuilt(_, _, _)
Rebuilt(s, M, i) ==
    LET later == {m \in M : m >= i}
    IN  IF later = {} THEN SubSeq(s, i, Len(s))
        ELSE LET m == CHOOSE x \in later : \A y \in later : x <= y
                 g == MatchAt(s, m)
             IN  SubSeq(s, i, m - 1) \o AtOpen \o SubSeq(s, g.from, g.to)
                    \o AtClose \o Rebuilt(s, M, g.end)

\* the number of places where w occurs in s
Occurrences(w, s) ==
    Cardinality({i \in 1..Len(s) :
        i + Len(w) - 1 <= Len(s) /\ SubSeq(s, i, i + Len(w) - 1) = w})

\* C2: the mention rewrite is global and order preserving: each of the k markers
\* of the text is replaced by <at>CONTENT</at> with its own inner text, in the
\* original order and exactly once, and the characters outside the markers stay
\* in place (the texts of the model hold no tag, so the k tags are the inserted
\* ones)
C2_GlobalOrdered ==
    (TextCallReturned /\ NonEmptyString(GivenText)) =>
        LET s == GivenText.s
            M == Marks(s, 1)
        IN  /\ result.text = Str(toUnicodeVersion(Rebuilt(s, M, 1)))
            /\ Occurrences(AtOpen, result.text.s) = Cardinality(M)
            /\ Occurrences(AtClose, result.text.s) = Cardinality(M)

C2_Witness ==
    /\ TextCallReturned
    /\ params["text"] = Str(<<"@", "<", "a", ">", "@", "<", "<", "b", " ", "c", ">", ">">>)
    /\ result.text = Str(<<"<", "a", "t", ">", "a", "<", "/", "a", "t", ">",
                           "<", "a", "t", ">", "b", " ", "c", "<", "/", "a", "t", ">">>)

\* the length of the run of characters other than ">" and "[" from position i
RECURSIVE InnerLen(_, _)
InnerLen(s, i) ==
    IF i <= Len(s) /\ s[i] # ">" /\ s[i] # "[" THEN 1 + InnerLen(s, i + 1) ELSE 0

\* the length of the run of ">" from position i
RECURSIVE ClosingLen(_, _)
ClosingLen(s, i) ==
    IF i <= Len(s) /\ s[i] = ">" THEN 1 + ClosingLen(s, i + 1) ELSE 0

\* a marker starts at position i: "@<", a non-empty inner text without ">" and
\* "[", and a ">" right after it
MarkerAt(s, i) ==
    /\ i + 1 <= Len(s)
    /\ s[i] = "@"
    /\ s[i + 1] = "<"
    /\ InnerLen(s, i + 2) >= 1
    /\ ClosingLen(s, i + 2 + InnerLen(s, i + 2)) >= 1

\* the inner text of the marker at i: everything between "@<" and the first ">"
InnerText(s, i) ==
    SubSeq(s, i + 2, i + 1 + InnerLen(s, i + 2))

\* the position after the marker at i and all its closing ">"
AfterMarker(s, i) ==
    LET e == i + 2 + InnerLen(s, i + 2) IN e + ClosingLen(s, e)

\* an inner text without the "<" it starts with; of an inner text made of "<"
\* only, the last one is kept
RECURSIVE WithoutLeadingLt(_)
WithoutLeadingLt(w) ==
    IF Len(w) >= 2 /\ w[1] = "<" THEN WithoutLeadingLt(Tail(w)) ELSE w

\* the rewrite as stated: CONTENT is the whole inner text
RECURSIVE RewriteWholeInner(_, _)
RewriteWholeInner(s, i) ==
    IF i > Len(s) THEN <<>>
    ELSE IF MarkerAt(s, i)
         THEN AtOpen \o InnerText(s, i) \o AtClose
                 \o RewriteWholeInner(s, AfterMarker(s, i))
         ELSE <<s[i]>> \o RewriteWholeInner(s, i + 1)

\* the rewrite with CONTENT the inner text after its leading "<"
RECURSIVE RewriteStripped(_, _)
RewriteStripped(s, i) ==
    IF i > Len(s) THEN <<>>
    ELSE IF MarkerAt(s, i)
         THEN AtOpen \o WithoutLeadingLt(InnerText(s, i)) \o AtClose
                 \o RewriteStripped(s, AfterMarker(s, i))
         ELSE <<s[i]>> \o RewriteStripped(s, i + 1)

\* C3, as stated: a marker is "@<", one or more characters other than ">" and
\* "[", one or more ">"; CONTENT is everything between "@<" and the first ">",
\* a further "<" included; all closing ">" are consumed; a candidate with an
\* empty inner text or a "[" before the ">" is left unchanged
C3_AsStated ==
    (TextCallReturned /\ NonEmptyString(GivenText)) =>
        result.text = Str(toUnicodeVersion(RewriteWholeInner(GivenText.s, 1)))

\* C3, amended: the same markers, but the "<" that follow "@<" are consumed with
\* it and are no part of CONTENT (of an inner text made of "<" only, CONTENT is
\* the last "<")
C3_LeadingLtConsumed ==
    (TextCallReturned /\ NonEmptyString(GivenText)) =>
        result.text = Str(toUnicodeVersion(RewriteStripped(GivenText.s, 1)))

C3_Witness ==
    /\ TextCallReturned
    /\ params["text"] = Str(<<"@", "<", "<", "a", ">">>)
    /\ result.text = Str(<<"<", "a", "t", ">", "a", "<", "/", "a", "t", ">">>)

\* the markers of s, by their start positions
MarkerStarts(s) ==
    Marks(s, 1)

\* an "@" of s lies in the captured text of a marker, or right before a marker
StrayAt(s) ==
    \E m \in MarkerStarts(s) :
        \/ \E j \in MatchAt(s, m).from..MatchAt(s, m).to : s[j] = "@"
        \/ m > 1 /\ s[m - 1] = "@"

\* C9, as stated: the mention rewrite is idempotent on every string, and a string
\* without a marker is returned unchanged
C9_AsStated ==
    (TextCallReturned /\ NonEmptyString(GivenText)) =>
        LET once == MentionRewrite(GivenText.s)
        IN  /\ MentionRewrite(once) = once
            /\ MarkerStarts(GivenText.s) = {} => once = GivenText.s

\* C9, amended: the rewrite of its own output gives that output again for every
\* string in which no "@" lies in the inner text of a marker or right before a
\* marker, and a string without a marker is returned unchanged
C9_IdempotentWithoutStrayAt ==
    (TextCallReturned /\ NonEmptyString(GivenText)) =>
        LET once == MentionRewrite(GivenText.s)
        IN  /\ ~StrayAt(GivenText.s) =>
                /\ MentionRewrite(once) = once
                /\ result.text = Str(toUnicodeVersion(MentionRewrite(once)))
            /\ MarkerStarts(GivenText.s) = {} => once = GivenText.s

C9_Witness ==
    /\ TextCallReturned
    /\ params["text"] = Str(<<"@", "<", "a", ">", "@", "<", "a", ">">>)
    /\ ~StrayAt(params["text"].s)
    /\ MentionRewrite(result.text.s) = result.text.s

----------------------------------------------------------------------------
(* Properties of the builders, checked under Spec *)

\* a call of builder b has returned
Returned(b) ==
    pc = "returned" /\ op = b

\* a key the caller left out of the parameter object
Omitted(f) ==
    params[f] = Absent

\* the documented defaults, by builder and field
DocumentedDefaults(b) ==
    CASE b = "textBlock" ->
            [horizontalAlignment |-> Str(<<"l", "e", "f", "t">>),
             wrap |-> Bool(TRUE),
             style |-> Str(<<"d", "e", "f", "a", "u", "l", "t">>),
             isSubtle |-> Bool(FALSE),
             separator |-> Bool(FALSE),
             isVisible |-> Bool(TRUE)]
      [] b = "image" ->
            [horizontalAlignment |-> Str(<<"l", "e", "f", "t">>),
             altText |-> Str(<<"i", "m", "a", "g", "e">>),
             separator |-> Bool(FALSE),
             isVisible |-> Bool(TRUE)]
      [] b = "media" ->
            [separator |-> Bool(FALSE), isVisible |-> Bool(TRUE)]
      [] b = "richTextBlock" ->
            [horizontalAlignment |-> Str(<<"l", "e", "f", "t">>),
             separator |-> Bool(FALSE),
             isVisible |-> Bool(TRUE)]
      [] b = "textRun" ->
            [isSubtle |-> Bool(FALSE), highlight |-> Bool(FALSE),
             italic |-> Bool(FALSE), strikethrough |-> Bool(FALSE),
             underline |-> Bool(FALSE)]
      [] b = "mediaSource" -> [f \in {} |-> Undefined]

\* C4: a field omitted from the parameter object has its documented default in
\* the result, whichever of the other fields are supplied
C4_Defaults ==
    \A b \in ParamBuilders :
        Returned(b) =>
            \A f \in DOMAIN DocumentedDefaults(b) :
                Omitted(f) => result[f] = DocumentedDefaults(b)[f]

C4_Witness ==
    /\ Returned("textBlock")
    /\ Omitted("wrap")
    /\ Omitted("horizontalAlignment")
    /\ params["isVisible"] = Bool(FALSE)
    /\ params["color"] = Str(<<"z">>)
    /\ result.wrap = Bool(TRUE)
    /\ result.horizontalAlignment = Str(<<"l", "e", "f", "t">>)

AllowExpand ==
    [k \in {"allowExpand"} |-> Bool(TRUE)]

EmptyObject ==
    [k \in {} |-> Bool(TRUE)]

\* the values JavaScript takes for false in a condition
Falsy(v) ==
    \/ v.t \in {"absent", "undefined", "null"}
    \/ v = Bool(FALSE)
    \/ v = Num(0)
    \/ v = Str(<<>>)

\* C5, as stated: msTeams is {allowExpand: true} when allowZoom is true and {} in
\* every other case; it is always present and allowZoom is no key of the result
C5_AsStated ==
    Returned("image") =>
        /\ "msTeams" \in DOMAIN result
        /\ "allowZoom" \notin DOMAIN result
        /\ result.msTeams =
              IF params["allowZoom"] = Bool(TRUE) THEN AllowExpand ELSE EmptyObject

\* C5, amended: msTeams is {allowExpand: true} when allowZoom is true or any other
\* value that counts as true in a condition (a non-empty string, a non-zero
\* number, an object), and {} when allowZoom is omitted, undefined, null, false, 0
\* or the empty string; it is always present, no other field changes it and
\* allowZoom is no key of the result
C5_MsTeamsByTruthiness ==
    Returned("image") =>
        /\ "msTeams" \in DOMAIN result
        /\ "allowZoom" \notin DOMAIN result
        /\ result.msTeams =
              IF Falsy(params["allowZoom"]) THEN EmptyObject ELSE AllowExpand

C5_Witness ==
    /\ Returned("image")
    /\ params["allowZoom"] = Str(<<"z">>)
    /\ params["url"] # Absent
    /\ result.msTeams = AllowExpand

\* a sub-field of a user as the result carries it: a missing one is undefined
Given(user, k) ==
    IF user[k] = Absent THEN Undefined ELSE user[k]

Renamed(user) ==
    [id |-> Given(user, "id"),
     displayName |-> Given(user, "name"),
     userPrincipalName |-> Given(user, "email")]

\* C6: userIconSet returns properties.users of the length of its input, the i-th
\* entry being the i-th user renamed: order kept, nothing deduplicated, dropped or
\* added, a missing sub-field undefined; userIcon renames one user directly under
\* properties, with name "graph.microsoft.com/user" and view "compact"
C6_UsersRenamedInOrder ==
    /\ Returned("userIconSet") =>
          /\ Len(result.properties.users) = Len(params)
          /\ \A i \in 1..Len(params) :
                result.properties.users[i] = Renamed(params[i])
    /\ Returned("userIcon") =>
          /\ result.properties = Renamed(params)
          /\ result.name =
                Str(<<"g", "r", "a", "p", "h", ".", "m", "i", "c", "r", "o", "s",
                      "o", "f", "t", ".", "c", "o", "m", "/", "u", "s", "e", "r">>)
          /\ result.view = Str(<<"c", "o", "m", "p", "a", "c", "t">>)

C6_Witness ==
    /\ Returned("userIconSet")
    /\ Len(params) = 2
    /\ params[1] = [id |-> Str(<<"2">>), name |-> Absent, email |-> Str(<<"1">>)]
    /\ params[2] = [id |-> Str(<<"1">>), name |-> Str(<<"1">>), email |-> Str(<<"2">>)]
    /\ result.properties.users[1].id = Str(<<"2">>)
    /\ result.properties.users[1].displayName = Undefined

\* the literal type of each variant
TypeLiteral(b) ==
    CASE b = "textBlock" -> <<"T", "e", "x", "t", "B", "l", "o", "c", "k">>
      [] b = "image" -> <<"I", "m", "a", "g", "e">>
      [] b = "media" -> <<"M", "e", "d", "i", "a">>
      [] b = "richTextBlock" ->
            <<"R", "i", "c", "h", "T", "e", "x", "t", "B", "l", "o", "c", "k">>
      [] b = "textRun" -> <<"T", "e", "x", "t", "R", "u", "n">>
      [] b = "userIcon" -> <<"C", "o", "m", "p", "o", "n", "e", "n", "t">>
      [] b = "userIconSet" -> <<"C", "o", "m", "p", "o", "n", "e", "n", "t">>
      [] b = "mediaSource" -> <<"M", "e", "d", "i", "a", "S", "o", "u", "r", "c", "e">>

\* the result has a type field with the literal of its variant
HasTypeLiteral ==
    "type" \in DOMAIN result /\ result.type = Str(TypeLiteral(op))

\* C7, as stated: the result of every builder, mediaSource included, carries the
\* type literal of its variant, whatever the input
C7_AsStated ==
    pc = "returned" => HasTypeLiteral

\* C7, amended: the result of textBlock, image, media, richTextBlock, textRun,
\* userIcon and userIconSet carries the type literal of its variant, whatever the
\* input, a type key of the input included; the result of mediaSource has the
\* keys mimeType and url and no type
C7_TypeExceptMediaSource ==
    /\ (pc = "returned" /\ op # "mediaSource") => HasTypeLiteral
    /\ Returned("mediaSource") => DOMAIN result = {"mimeType", "url"}

C7_Witness ==
    /\ Returned("media")
    /\ params["type"] = Str(<<"z">>)
    /\ result.type = Str(<<"M", "e", "d", "i", "a">>)

\* the fields of builder b without a documented default
Undefaulted(b) ==
    KeysOf(b) \ DOMAIN DocumentedDefaults(b)

\* field f of the result is the value the caller supplied, or undefined when the
\* caller left out a field without a documented default
Copied(b, f) ==
    /\ params[f].t \notin {"absent", "undefined"} =>
          f \in DOMAIN result /\ result[f] = params[f]
    /\ (params[f].t \in {"absent", "undefined"} /\ f \in Undefaulted(b)) =>
          f \in DOMAIN result /\ result[f] = Undefined

\* C10, as stated: every value supplied for a field other than text is the value
\* of the same-named field of the result, and an omitted field without a
\* documented default is undefined in the result
C10_AsStated ==
    \A b \in ParamBuilders :
        Returned(b) => \A f \in KeysOf(b) \ {"text"} : Copied(b, f)

\* C10, amended: the same for every field other than text and the allowZoom flag
\* of image, which is no field of the result
C10_SuppliedValuesCopied ==
    \A b \in ParamBuilders :
        Returned(b) => \A f \in KeysOf(b) \ {"text", "allowZoom"} : Copied(b, f)

C10_Witness ==
    /\ Returned("textBlock")
    /\ params["wrap"] = Bool(FALSE)
    /\ params["spacing"] = Null
    /\ Omitted("maxLines")
    /\ result.wrap = Bool(FALSE)
    /\ result.spacing = Null
    /\ result.maxLines = Undefined

----------------------------------------------------------------------------
(* Property of the registries, checked under SpecEnum *)

\* C8: after any calls and attempted writes (setting, adding or deleting a key),
\* every read of every registry key gives the value it had at load, and the style
\* default of textBlock is unchanged
C8_RegistriesImmutable ==
    /\ \A r \in RegistryNames, k \in EnumKeys :
          GetProperty(registries[r], k) = GetProperty(LoadedRegistries[r], k)
    /\ (Returned("read") /\ params = [registry |-> "TextColors", key |-> "red"]) =>
          result = Str(<<"a", "t", "t", "e", "n", "t", "i", "o", "n">>)
    /\ (Returned("read") /\ params = [registry |-> "TextSizes", key |-> "extra"]) =>
          result = Undefined
    /\ (Returned("textBlock") /\ params["style"].t \in {"absent", "undefined"}) =>
          result.style = Str(<<"d", "e", "f", "a", "u", "l", "t">>)

C8_Witness ==
    /\ writes = MaxWrites
    /\ Returned("textBlock")
    /\ Omitted("style")
    /\ result.style = Str(<<"d", "e", "f", "a", "u", "l", "t">>)

====
